---- MODULE Spec2Model ----
(***************************************************************************)
(* Model of the cecil ingestion driver (driver.py) and of the per-satellite *)
(* cycle history (models.py: Cycle, FrozenCycle, SatHistory, freeze_cycle). *)
(*                                                                         *)
(* Optional[T] values are sequences of length at most one: None is <<>>    *)
(* and a present value x is <<x>>.                                         *)
(***************************************************************************)
EXTENDS Integers, Sequences, FiniteSets, TLC

VARIABLES hist, now, call, fed, pc, do_reset, lock, queue, shared, req

vars == <<hist, now, call, fed, pc, do_reset, lock, queue, shared, req>>

\* The variables of the single-history runs and those of the driver
histVars == <<hist, fed>>
driverVars == <<pc, do_reset, lock, queue, shared, req>>

(***************************************************************************)
(* Bounds of the model and configuration values.                           *)
(***************************************************************************)
\* cfg.daq.AVG_SIZE: capacity of a satellite's archive
AVG_SIZE == 2
\* cfg.daq.MAX_AGE: miss-age at which the archive is cleared
MAX_AGE == 2
\* cfg.daq.AZ_OFFSET: calibration offset in degrees
AZ_OFFSET == 0
\* highest antenna cycle counter fed to the model
MaxCycle == AVG_SIZE + 1
\* highest miss-age the model lets a history reach
AgeCap == MAX_AGE + 1
\* largest number of frames waiting in the input queue
MaxQueue == 1
\* last instant of the wall clock
MaxTime == 3

None == <<>>
Some(x) == <<x>>

AntennaPhase == {"A", "B", "C", "D"}
\* largest number of samples one active cycle accumulates in the model:
\* as many as there are phases
MaxSamples == Cardinality(AntennaPhase)
\* SNR field of a reading: absent, zero, or a positive strength
SNRValues == {None, Some(0), Some(1)}
CycleValues == 0..MaxCycle

(***************************************************************************)
(* Sat                                                                     *)
(***************************************************************************)
talker_to_offset(talker) ==
    CASE talker = "GA" -> Some(1000)
      [] talker = "GB" -> Some(2000)
      [] talker = "GL" -> Some(3000)
      [] talker = "GN" -> Some(4000)
      [] talker = "GP" -> Some(5000)
      [] talker = "GQ" -> Some(6000)
      [] OTHER -> None

\* Python truthiness of an Optional[int]: None and 0 are falsy
Truthy(opt) == opt # None /\ opt[1] # 0

Sat(talker, prn, azimuth, elevation, snr, phase, timestamp) ==
    [talker |-> talker, prn |-> prn, azimuth |-> azimuth,
     elevation |-> elevation, SNR |-> snr, phase |-> phase,
     timestamp |-> timestamp]

\* Sat.ident and SatHistory.ident compute the same thing from talker and prn
ident(talker, prn) ==
    LET offset == talker_to_offset(talker)
    IN IF Truthy(offset) /\ Truthy(prn) THEN offset[1] + prn[1] ELSE -1000

(***************************************************************************)
(* Cycle                                                                   *)
(***************************************************************************)
Cycle(counter) ==
    [counter |-> counter, A |-> <<>>, B |-> <<>>, C |-> <<>>, D |-> <<>>]

is_valid(cycle) == \A phase \in AntennaPhase : Len(cycle[phase]) > 0

is_invalid(cycle) == ~is_valid(cycle)

NumSamples(cycle) ==
    Len(cycle.A) + Len(cycle.B) + Len(cycle.C) + Len(cycle.D)

(***************************************************************************)
(* freeze_cycle: means as reduced fractions, azimuth in millidegrees       *)
(***************************************************************************)
RECURSIVE SeqSum(_)
SeqSum(s) == IF s = <<>> THEN 0 ELSE Head(s) + SeqSum(Tail(s))

Abs(x) == IF x < 0 THEN -x ELSE x

RECURSIVE Gcd(_, _)
Gcd(a, b) == IF b = 0 THEN a ELSE Gcd(b, a % b)

\* The fraction n/d in lowest terms, g being the greatest common divisor
Reduced(n, d, g) == [num |-> n \div g, den |-> d \div g]

\* statistics.fmean of a non-empty list, as a fraction in lowest terms
fmean(s) == Reduced(SeqSum(s), Len(s), Gcd(Abs(SeqSum(s)), Len(s)))

\* atan of y/x in millidegrees for 0 <= y <= x, x > 0: exact at 0 and at
\* 45 degrees, within a quarter of a degree in between
AtanOctant(y, x) == (45000 * y * x + 15642 * y * (x - y)) \div (x * x)

\* atan of y/x in millidegrees for x >= 0, y >= 0, not both 0
AtanQuadrant(y, x) ==
    IF y <= x THEN AtanOctant(y, x) ELSE 90000 - AtanOctant(x, y)

\* math.atan2(y, x) in millidegrees, in (-180000, 180000]
atan2(y, x) ==
    CASE y = 0 /\ x >= 0 -> 0
      [] y = 0 /\ x < 0 -> 180000
      [] y > 0 /\ x >= 0 -> AtanQuadrant(y, x)
      [] y > 0 /\ x < 0 -> 180000 - AtanQuadrant(y, -x)
      [] y < 0 /\ x >= 0 -> -AtanQuadrant(-y, x)
      [] OTHER -> -(180000 - AtanQuadrant(-y, -x))

FrozenCycle(counter, a, b, c, d, avg_a, avg_b, avg_c, avg_d, azimuth) ==
    [counter |-> counter, A |-> a, B |-> b, C |-> c, D |-> d,
     avg_A |-> avg_a, avg_B |-> avg_b, avg_C |-> avg_c, avg_D |-> avg_d,
     azimuth |-> azimuth]

\* Normalized that leaves a negative angle as it is
NormalizedNoTurn(raw) == raw + 1000 * AZ_OFFSET

\* Lines 418-421: degrees(atan2(y, x)) brought into [0, 360), plus the offset
Normalized(raw) == (IF raw < 0 THEN 360000 + raw ELSE raw) + 1000 * AZ_OFFSET

\* Line 415: avg_a - avg_c and avg_b - avg_d over the common
\* denominator avg_a.den * avg_c.den * avg_b.den * avg_d.den
Azimuth(avg_a, avg_b, avg_c, avg_d) ==
    Normalized(atan2((avg_a.num * avg_c.den - avg_c.num * avg_a.den)
                        * (avg_b.den * avg_d.den),
                     (avg_b.num * avg_d.den - avg_d.num * avg_b.den)
                        * (avg_a.den * avg_c.den)))

\* Lines 423-434: the frozen record of a complete cycle with its means
Frozen(active, avg_a, avg_b, avg_c, avg_d) ==
    FrozenCycle(active.counter, active.A, active.B, active.C, active.D,
                avg_a, avg_b, avg_c, avg_d,
                Azimuth(avg_a, avg_b, avg_c, avg_d))

\* The result of a call that may raise: exc names the exception ("" = none)
freeze_cycle(active) ==
    IF is_invalid(active)
    THEN [exc |-> "ValueError", value |-> None]
    ELSE [exc |-> "",
          value |-> Some(Frozen(active, fmean(active.A), fmean(active.B),
                                fmean(active.C), fmean(active.D)))]

(***************************************************************************)
(* CaporDict: insertion-ordered map of fixed capacity, oldest evicted      *)
(***************************************************************************)
CaporDict(maxlen) == [cap |-> maxlen, items |-> <<>>]

CaporDictKeys(d) == {d.items[i].key : i \in 1..Len(d.items)}

CaporDictContains(d, key) == key \in CaporDictKeys(d)

CaporDictClear(d) == [d EXCEPT !.items = <<>>]

CaporDictGet(d, key) ==
    (CHOOSE i \in 1..Len(d.items) : d.items[i].key = key).value

\* d[key] = value: an existing key keeps its place, a new key goes last and
\* the earliest-inserted entry is dropped when the capacity is exceeded
CaporDictSet(d, key, value) ==
    IF CaporDictContains(d, key)
    THEN [d EXCEPT !.items =
            [i \in 1..Len(@) |->
                IF @[i].key = key THEN [key |-> key, value |-> value]
                                  ELSE @[i]]]
    ELSE LET added == Append(d.items, [key |-> key, value |-> value])
         IN [d EXCEPT !.items =
                IF Len(added) > d.cap THEN Tail(added) ELSE added]

(***************************************************************************)
(* SatHistory                                                              *)
(***************************************************************************)
\* SatHistoryInit with an archive one entry too large
SatHistoryInitWide(talker, prn, avg_size, max_age) ==
    [talker |-> talker, prn |-> prn,
     avg_size |-> avg_size, max_age |-> max_age,
     active_phase |-> "A",
     active_cycle |-> None,
     records |-> CaporDict(avg_size + 1),
     age |-> 0,
     valid |-> TRUE,
     last_update |-> None,
     latest_sat |-> None]

SatHistoryInit(talker, prn, avg_size, max_age) ==
    [talker |-> talker, prn |-> prn,
     avg_size |-> avg_size, max_age |-> max_age,
     active_phase |-> "A",
     active_cycle |-> None,
     records |-> CaporDict(avg_size),
     age |-> 0,
     valid |-> TRUE,
     last_update |-> None,
     latest_sat |-> None]

above_age_limit(self) == self.age >= self.max_age

\* MarkMissing that forgets to count the miss
MarkMissingNoAge(self, sat) ==
    [self EXCEPT !.valid = FALSE,
                 !.active_phase = sat.phase]

\* Lines 344-349: a reading without usable SNR marks the history invalid
MarkMissing(self, sat) ==
    [self EXCEPT !.valid = FALSE,
                 !.active_phase = sat.phase,
                 !.age = @ + 1]

\* Lines 351-353: above the age limit the archive is emptied
ClearAboveAge(self) ==
    IF above_age_limit(self)
    THEN [self EXCEPT !.records = CaporDictClear(@)]
    ELSE self

\* AgeInvalid that takes the reading as a recovery and marks the history
\* valid again
AgeInvalidRevalidates(self) == [self EXCEPT !.age = @ + 1, !.valid = TRUE]

\* Lines 356-358: an invalid history only grows older
AgeInvalid(self) == [self EXCEPT !.age = @ + 1]

\* Lines 361-362: the first accepted reading creates the active cycle
EnsureActive(self, cycle) ==
    IF self.active_cycle = None
    THEN [self EXCEPT !.active_cycle = Some(Cycle(cycle))]
    ELSE self

\* IsEarlier with the check left out
IsEarlierNever(self, cycle) == FALSE

\* Line 364
IsEarlier(self, cycle) == cycle < self.active_cycle[1].counter

\* Line 368
IsDuplicate(self, cycle) == CaporDictContains(self.records, cycle)

\* BoundaryCrossed that takes the active counter itself for a new cycle
BoundaryCrossedSame(self, cycle) == cycle >= self.active_cycle[1].counter

\* Line 374
BoundaryCrossed(self, cycle) == cycle # self.active_cycle[1].counter

\* Archive that files the frozen cycle under the counter of the new cycle
ArchiveUnderNew(self, cycle, active, frozen) ==
    IF frozen.exc # ""
    THEN [self |-> self, exc |-> frozen.exc, log |-> <<"freeze">>]
    ELSE [self |-> [self EXCEPT
                     !.records = CaporDictSet(@, cycle, frozen.value[1]),
                     !.active_cycle = Some(Cycle(cycle))],
          exc |-> "", log |-> <<"freeze">>]

\* Lines 376-380: the frozen cycle goes into the archive under its counter
\* and a fresh cycle starts.  An exception raised by freeze_cycle leaves
\* update before the fresh cycle is created.
Archive(self, cycle, active, frozen) ==
    IF frozen.exc # ""
    THEN [self |-> self, exc |-> frozen.exc, log |-> <<"freeze">>]
    ELSE [self |-> [self EXCEPT
                     !.records = CaporDictSet(@, active.counter,
                                              frozen.value[1]),
                     !.active_cycle = Some(Cycle(cycle))],
          exc |-> "", log |-> <<"freeze">>]

\* CrossBoundary without the is_valid guard around freeze_cycle
CrossBoundaryUnguarded(self, cycle) ==
    Archive(self, cycle, self.active_cycle[1],
            freeze_cycle(self.active_cycle[1]))

\* CrossBoundary that starts the fresh cycle and archives nothing
CrossBoundaryDrop(self, cycle) ==
    [self |-> [self EXCEPT !.active_cycle = Some(Cycle(cycle))],
     exc |-> "", log |-> <<"active cycle is invalid">>]

\* Lines 375-387: the active cycle crossed into a new counter: archive it
\* if complete, and start a fresh cycle either way
CrossBoundary(self, cycle) ==
    IF is_valid(self.active_cycle[1])
    THEN Archive(self, cycle, self.active_cycle[1],
                 freeze_cycle(self.active_cycle[1]))
    ELSE [self |-> [self EXCEPT !.active_cycle = Some(Cycle(cycle))],
          exc |-> "", log |-> <<"active cycle is invalid">>]

\* The append when the new active cycle shares its sample lists with the
\* record archived last, so that the sample shows up in that record too
AppendSampleShared(self, sat, t) ==
    [self EXCEPT !.active_cycle[1][sat.phase] = Append(@, sat.SNR[1]),
                 !.records.items =
                     IF @ = <<>> THEN @
                     ELSE [@ EXCEPT ![Len(@)].value[sat.phase] =
                                        Append(@, sat.SNR[1])],
                 !.latest_sat = Some(sat),
                 !.valid = TRUE,
                 !.active_phase = sat.phase,
                 !.age = 0,
                 !.last_update = Some(t)]

\* Lines 389-397: append the sample and mark the history fresh
AppendSample(self, sat, t) ==
    [self EXCEPT !.active_cycle[1][sat.phase] = Append(@, sat.SNR[1]),
                 !.latest_sat = Some(sat),
                 !.valid = TRUE,
                 !.active_phase = sat.phase,
                 !.age = 0,
                 !.last_update = Some(t)]

\* Lines 389-397 after the boundary step, or the exception it raised
UpdateAppend(crossed, log1, sat, t) ==
    IF crossed.exc # ""
    THEN [self |-> crossed.self, exc |-> crossed.exc,
          log |-> log1 \o crossed.log]
    ELSE [self |-> AppendSample(crossed.self, sat, t), exc |-> "",
          log |-> log1 \o crossed.log \o <<"appended">>]

\* Lines 364-387 on a valid history s2 that has an active cycle
UpdateActive(s2, log1, cycle, sat, t) ==
    IF IsEarlier(s2, cycle)
    THEN [self |-> s2, exc |-> "", log |-> log1 \o <<"earlier cycle">>]
    ELSE IF IsDuplicate(s2, cycle)
    THEN [self |-> s2, exc |-> "", log |-> log1 \o <<"already exists">>]
    ELSE UpdateAppend(IF BoundaryCrossed(s2, cycle)
                      THEN CrossBoundary(s2, cycle)
                      ELSE [self |-> s2, exc |-> "", log |-> <<>>],
                      log1, sat, t)

\* Lines 356-362 on the history s1 left by the age check
UpdateUsable(s1, log1, cycle, sat, t) ==
    IF ~s1.valid
    THEN [self |-> AgeInvalid(s1), exc |-> "",
          log |-> log1 \o <<"invalid">>]
    ELSE UpdateActive(EnsureActive(s1, cycle), log1, cycle, sat, t)

\* SatHistory.update(cycle, sat) with time.time() reading t.  The result
\* carries the history after the call, the exception that left the call
\* ("" = a normal return) and the messages logged or printed on the way.
update(self, cycle, sat, t) ==
    IF ~Truthy(sat.SNR)
    THEN [self |-> MarkMissing(self, sat), exc |-> "",
          log |-> <<"went missing">>]
    ELSE UpdateUsable(ClearAboveAge(self),
                      IF above_age_limit(self)
                      THEN <<"above age limit">> ELSE <<>>,
                      cycle, sat, t)

(***************************************************************************)
(* Driver: the state it owns and the processing of one sentence            *)
(***************************************************************************)
\* str(ident): the registry key of an identity
str(n) == ToString(n)

\* RawSentence.raw.decode(encoding).strip() (line 91): the bytes of a frame
\* either cannot be decoded, or give only whitespace, or give a sentence
RawFrames == {"undecodable", "blank", "text"}

decode_strip(raw) ==
    CASE raw = "undecodable" -> [exc |-> "UnicodeDecodeError", len |-> 0]
      [] raw = "blank" -> [exc |-> "", len |-> 0]
      [] OTHER -> [exc |-> "", len |-> 1]

\* A field of a parsed GSV sentence is a string: blank, digits, or not a number
Blank == [k |-> "blank", v |-> 0]
Num(n) == [k |-> "num", v |-> n]
Bad == [k |-> "bad", v |-> 0]

\* int(x) if x else None (lines 141-153)
coerce(field) ==
    CASE field.k = "blank" -> [exc |-> "", value |-> None]
      [] field.k = "num" -> [exc |-> "", value |-> Some(field.v)]
      [] OTHER -> [exc |-> "ValueError", value |-> None]

Slot(prn, azimuth, elevation, snr) ==
    [prn |-> prn, azimuth |-> azimuth, elevation |-> elevation, snr |-> snr]

EmptySlot == Slot(Blank, Blank, Blank, Blank)

\* Decoded sentences by family.  A sentence names what the decoders and the
\* external parser make of its text.
Proprietary(psid, parse, value) ==
    [lead |-> "#", psid |-> psid, parse |-> parse, value |-> value]

\* A phase sentence: its fifth character and the counter it carries
Phase(ch, parse, counter) ==
    [lead |-> "#", psid |-> "#02", ch |-> ch, parse |-> parse,
     counter |-> counter]

Standard(parse, type, talker, slots, fix) ==
    [lead |-> "$", parse |-> parse, type |-> type, talker |-> talker,
     slots |-> slots, fix |-> fix]

Unknown == [lead |-> "x"]

\* Driver.__init__ (lines 42-60); satellites is a set of entries
\* [key, hist] with distinct keys
DriverInit ==
    [antenna |-> None, position |-> None, magnetometer |-> None,
     temprature |-> None, status |-> None, error_status |-> None,
     antenna_phase |-> "A", magnetometer_readings |-> <<>>,
     satellites |-> {}]

\* cfg.magnetometer.AVG_SIZE: length of the magnetometer buffer
MAG_AVG_SIZE == 1

\* get_config().device.TYPE == SerialDeviceType.MOCK and not
\* get_config().mocking.DYNAMIC_SIM (line 255)
MOCK_STATIC == FALSE

\* cfg.daq.MAX_AGE_TIME, in milliseconds; the clock now counts milliseconds
MAX_AGE_TIME == 2

\* deque(maxlen=n).append
deque_append(q, x, maxlen) ==
    IF Len(q) >= maxlen THEN Tail(Append(q, x)) ELSE Append(q, x)

Antenna(counter, phase) == [counter |-> counter, phase |-> phase]

\* server.cecil.daq.parser.parse_phase_sentence: the antenna snapshot of a
\* phase sentence, or an exception for a malformed one
parse_phase_sentence(decoded) ==
    IF decoded.parse = "ok"
    THEN [exc |-> "", value |-> Some(Antenna(decoded.counter, decoded.ch))]
    ELSE [exc |-> "ValueError", value |-> None]

\* parse_temperature_sentence, parse_magnetometer_sentence, parse_gga_sentence
parse_value(decoded) ==
    IF decoded.parse = "ok"
    THEN [exc |-> "", value |-> Some(decoded.value)]
    ELSE [exc |-> "ValueError", value |-> None]

\* above_time_limit that takes a history never updated for a stale one
above_time_limitUnset(self, t) ==
    IF self.last_update = None THEN TRUE
    ELSE self.last_update[1] <= t - MAX_AGE_TIME

\* SatHistory.above_time_limit at time t:
\* last_update <= time.time() - MAX_AGE_TIME / 1000
above_time_limit(self, t) ==
    IF self.last_update = None THEN FALSE
    ELSE self.last_update[1] <= t - MAX_AGE_TIME

\* The dict self.satellites
Keys(satellites) == {e.key : e \in satellites}

Lookup(satellites, key) == (CHOOSE e \in satellites : e.key = key).hist

Store(satellites, key, h) ==
    {e \in satellites : e.key # key} \cup {[key |-> key, hist |-> h]}

\* self.satellites[key] = the history a call of update left behind
Stored(sh, sats, key, res) ==
    [shared |-> [sh EXCEPT !.satellites = Store(sats, key, res.self)],
     exc |-> res.exc]

\* Driver._drop_old_satellites at time t: collect the identities of the
\* stale histories, then pop each by the string form of its identity
drop_old_satellites(sh, t) ==
    LET to_drop == {ident(e.hist.talker, e.hist.prn) :
                      e \in {x \in sh.satellites :
                                above_time_limit(x.hist, t)}}
        popped == {str(i) : i \in to_drop}
    IN [shared |-> [sh EXCEPT !.satellites =
                       {e \in sh.satellites : e.key \notin popped}],
        exc |-> IF popped \subseteq Keys(sh.satellites) THEN ""
                ELSE "KeyError"]

\* Lines 74-80 of _check_for_reset, with one field forgotten
ResetSharedKeepsPosition(sh) ==
    [sh EXCEPT !.satellites = {},
               !.antenna = None,
               !.magnetometer = None,
               !.temprature = None,
               !.status = None,
               !.error_status = None]

\* Lines 74-80 of _check_for_reset
ResetShared(sh) ==
    [sh EXCEPT !.satellites = {},
               !.antenna = None,
               !.position = None,
               !.magnetometer = None,
               !.temprature = None,
               !.status = None,
               !.error_status = None]

\* Lines 176-193: the history of sat, created if missing, takes the reading
UpdateRegistry(sh, sat, key, t) ==
    LET sats == IF key \in Keys(sh.satellites) THEN sh.satellites
                ELSE Store(sh.satellites, key,
                           SatHistoryInit(sat.talker, sat.prn,
                                          AVG_SIZE, MAX_AGE))
    IN Stored(sh, sats, key,
              update(Lookup(sats, key), sh.antenna[1].counter, sat, t))

\* SlotReading that keys the registry by the PRN alone
SlotReadingKeyedByPrn(sh, talker, prn, azimuth, elevation, snr, t) ==
    UpdateRegistry(sh, Sat(talker, prn, azimuth, elevation, snr,
                           sh.antenna_phase, t),
                   str(prn[1]), t)

\* Lines 163-171: the reading of a slot whose fields are all numbers
SlotReading(sh, talker, prn, azimuth, elevation, snr, t) ==
    UpdateRegistry(sh, Sat(talker, prn, azimuth, elevation, snr,
                           sh.antenna_phase, t),
                   str(ident(talker, prn)), t)

\* The skip of the commented-out lines 156-157: a slot without SNR is
\* skipped like a slot without PRN, azimuth or elevation
CoercedSkipsBlankSNR(sh, talker, prn, azimuth, elevation, snr, t) ==
    IF \E f \in {prn, azimuth, elevation, snr} : f.exc # ""
    THEN [shared |-> sh, exc |-> "ValueError"]
    ELSE IF azimuth.value = None \/ elevation.value = None
              \/ prn.value = None \/ snr.value = None
    THEN [shared |-> sh, exc |-> ""]
    ELSE SlotReading(sh, talker, prn.value, azimuth.value, elevation.value,
                     snr.value, t)

\* Lines 140-159: the coerced fields of a slot; int() raises on a field
\* that is not a number, and a slot without PRN, azimuth or elevation is
\* skipped
Coerced(sh, talker, prn, azimuth, elevation, snr, t) ==
    IF \E f \in {prn, azimuth, elevation, snr} : f.exc # ""
    THEN [shared |-> sh, exc |-> "ValueError"]
    ELSE IF azimuth.value = None \/ elevation.value = None
              \/ prn.value = None
    THEN [shared |-> sh, exc |-> ""]
    ELSE SlotReading(sh, talker, prn.value, azimuth.value, elevation.value,
                     snr.value, t)

\* Lines 140-195: one slot of a GSV sentence at time t
ProcessSlot(sh, sentence, i, t) ==
    Coerced(sh, sentence.talker, coerce(sentence.slots[i].prn),
            coerce(sentence.slots[i].azimuth),
            coerce(sentence.slots[i].elevation),
            coerce(sentence.slots[i].snr), t)

\* The loop with the coercion failure caught inside it: the slots after a
\* failed slot are still processed
NextSlotGoesOn(acc, sentence, i, t) ==
    IF ProcessSlot(acc.shared, sentence, i, t).exc # ""
    THEN [shared |-> acc.shared, exc |-> "ValueError"]
    ELSE [shared |-> ProcessSlot(acc.shared, sentence, i, t).shared,
          exc |-> acc.exc]

\* One pass of the loop of lines 137-195: an exception in an earlier slot
\* has ended the loop
NextSlot(acc, sentence, i, t) ==
    IF acc.exc # "" THEN acc ELSE ProcessSlot(acc.shared, sentence, i, t)

\* for i in range(1, 5)
ProcessSlots(sh, sentence, t) ==
    NextSlot(NextSlot(NextSlot(NextSlot([shared |-> sh, exc |-> ""],
                                        sentence, 1, t),
                               sentence, 2, t),
                      sentence, 3, t),
             sentence, 4, t)

\* The slots of lines 137-195 log nothing the model keeps
Silent(res) == [shared |-> res.shared, exc |-> res.exc, log |-> <<>>]

\* _process_gsv without the return of lines 130-132: the slots are read
\* with the antenna counter taken as 0, and the snapshot stays unset
process_gsvUnguarded(sh, sentence, t) ==
    IF sh.antenna = None
    THEN [shared |->
              [ProcessSlots([sh EXCEPT
                                !.antenna = Some(Antenna(0, sh.antenna_phase))],
                            sentence, t).shared EXCEPT !.antenna = None],
          exc |-> "", log |-> <<>>]
    ELSE Silent(ProcessSlots(sh, sentence, t))

\* Driver._process_gsv
process_gsv(sh, sentence, t) ==
    IF sh.antenna = None
    THEN [shared |-> sh, exc |-> "",
          log |-> <<"No antenna or antenna phase set">>]
    ELSE Silent(ProcessSlots(sh, sentence, t))

\* Driver._sort_proprietary_sentence: every exception is caught and logged
sort_proprietary_sentence(sh, decoded) ==
    CASE decoded.psid = "#00" ->
            [shared |-> [sh EXCEPT !.status = Some(decoded.value)],
             log |-> <<>>]
      [] decoded.psid = "#01" ->
            [shared |-> [sh EXCEPT !.error_status = Some(decoded.value)],
             log |-> <<>>]
      [] decoded.psid = "#02" ->
            IF decoded.ch \notin AntennaPhase
            THEN [shared |-> sh,
                  log |-> <<"Failed to parse proprietary sentence">>]
            ELSE LET s1 == [sh EXCEPT !.antenna_phase = decoded.ch]
                     parsed == parse_phase_sentence(decoded)
                 IN IF parsed.exc # ""
                    THEN [shared |-> s1,
                          log |-> <<"Failed to parse proprietary sentence">>]
                    ELSE [shared |-> [s1 EXCEPT !.antenna = parsed.value],
                          log |-> <<>>]
      [] decoded.psid = "#11" ->
            LET parsed == parse_value(decoded)
            IN IF parsed.exc # ""
               THEN [shared |-> sh,
                     log |-> <<"Failed to parse proprietary sentence">>]
               ELSE [shared |-> [sh EXCEPT !.temprature = parsed.value],
                     log |-> <<>>]
      [] decoded.psid = "#10" ->
            LET parsed == parse_value(decoded)
            IN IF parsed.exc # ""
               THEN [shared |-> sh,
                     log |-> <<"Failed to parse proprietary sentence">>]
               ELSE [shared |-> [sh EXCEPT
                        !.magnetometer = parsed.value,
                        !.magnetometer_readings =
                            deque_append(@, parsed.value[1], MAG_AVG_SIZE)],
                     log |-> <<>>]
      [] OTHER ->
            [shared |-> sh, log |-> <<"Got not impl proprietary sentence">>]

\* Lines 260-262: an exception of the processing is caught and logged
Caught(res) ==
    [shared |-> res.shared,
     log |-> IF res.exc # ""
             THEN res.log \o <<"Failed to process sentence">>
             ELSE res.log]

\* ParseFailure that lets a checksum error through
ParseFailureNoChecksum(decoded) == decoded.parse \in {"parse", "exception"}

\* Lines 234-247: pynmea2.parse raises ChecksumError, ParseError or another
\* exception
ParseFailure(decoded) == decoded.parse \in {"checksum", "parse", "exception"}

\* Driver._sort_regular_sentence at time t: the three parser failures return
\* early, an exception while processing is caught and logged
sort_regular_sentence(sh, decoded, t) ==
    CASE ParseFailure(decoded) ->
            [shared |-> sh,
             log |-> IF decoded.parse = "checksum"
                     THEN <<"Checksum error">>
                     ELSE <<"Unable to parse with pynmea">>]
      [] decoded.type = "GSV" ->
            Caught(process_gsv(sh, decoded, t))
      [] decoded.type = "GGA" ->
            LET parsed == IF MOCK_STATIC
                          THEN [exc |-> "", value |-> Some("canonical")]
                          ELSE parse_value(decoded.fix)
            IN IF parsed.exc # ""
               THEN [shared |-> sh, log |-> <<"Failed to process sentence">>]
               ELSE [shared |-> [sh EXCEPT !.position = parsed.value],
                     log |-> <<>>]
      [] OTHER -> [shared |-> sh, log |-> <<>>]

\* Lines 98-106: classify by the leading character
dispatch(sh, decoded, t) ==
    CASE decoded.lead = "#" -> sort_proprietary_sentence(sh, decoded)
      [] decoded.lead = "$" -> sort_regular_sentence(sh, decoded, t)
      [] OTHER -> [shared |-> sh, log |-> <<"Unknown sentence">>]

(***************************************************************************)
(* The sentences the model feeds                                           *)
(***************************************************************************)
NoFix == [parse |-> "ok", value |-> "fix"]
NoSlots == <<EmptySlot, EmptySlot, EmptySlot, EmptySlot>>

\* One satellite slot filled, SNR present or blank
OneSat(talker, prn, snr) ==
    Standard("ok", "GSV", talker,
             <<Slot(Num(prn), Num(10), Num(20), snr),
               EmptySlot, EmptySlot, EmptySlot>>, NoFix)

\* A good first slot followed by a slot whose PRN is not a number
SecondSlotBad ==
    Standard("ok", "GSV", "GP",
             <<Slot(Num(1), Num(10), Num(20), Num(1)),
               Slot(Bad, Num(10), Num(20), Num(1)),
               EmptySlot, EmptySlot>>, NoFix)

GoodSentences ==
    {Proprietary("#00", "ok", "status"),
     Proprietary("#01", "ok", "error"),
     Phase("A", "ok", 0),
     Proprietary("#11", "ok", "temp"),
     Proprietary("#10", "ok", "mag"),
     Standard("ok", "GGA", "GP", NoSlots, NoFix),
     OneSat("GP", 1, Num(1))}

BadSentences ==
    {Unknown,
     Proprietary("#99", "ok", ""),
     Phase("Z", "ok", 0),
     Phase("B", "bad", 0),
     Proprietary("#11", "bad", ""),
     Proprietary("#10", "bad", ""),
     Standard("checksum", "", "", NoSlots, NoFix),
     Standard("parse", "", "", NoSlots, NoFix),
     Standard("exception", "", "", NoSlots, NoFix),
     Standard("ok", "RMC", "GP", NoSlots, NoFix),
     Standard("ok", "GGA", "GP", NoSlots, [parse |-> "bad", value |-> ""]),
     SecondSlotBad}

Sentences == GoodSentences \cup BadSentences

\* The sentences of the staleness runs: an antenna snapshot and two
\* satellites, one of which also goes missing
SatSentences ==
    {Phase("A", "ok", 0),
     OneSat("GP", 1, Num(1)),
     OneSat("GP", 1, Blank),
     OneSat("GP", 2, Num(1))}

\* What is known of the reset requests: gets counts the frames the loop has
\* dequeued while the reset flag was set, unserved tells that reset() was
\* called and the loop has not begun a reset since
NoRequest == [gets |-> 0, unserved |-> FALSE]

\* The loop thread starts at the top of its first iteration
InitDriver ==
    /\ pc = "top"
    /\ do_reset = FALSE
    /\ lock = "free"
    /\ queue = <<>>
    /\ shared = DriverInit
    /\ req = NoRequest

(***************************************************************************)
(* SpecHist: one SatHistory fed arbitrary readings.  The wall clock stands *)
(* still here; SpecSweep moves it.                                         *)
(***************************************************************************)
\* What the last step did: the operation, the exception that left it, the
\* messages it logged and the size of the archive before it
NoCall == [op |-> "init", exc |-> "", log |-> <<>>, nrec |-> 0]

NoFeed == [cycles |-> <<>>, pos |-> 0]

InitHist ==
    /\ hist = SatHistoryInit("GP", Some(1), AVG_SIZE, MAX_AGE)
    /\ now = 0
    /\ call = NoCall
    /\ fed = NoFeed

Init ==
    /\ InitHist
    /\ InitDriver

\* The reading the driver builds for a slot (driver.py lines 163-171)
Reading(snr, phase) == Sat("GP", Some(1), Some(0), Some(0), snr, phase, now)

\* Bounds on what the model feeds: the miss-age and the size of the
\* active cycle stay within AgeCap and MaxSamples
WithinBounds(res) ==
    /\ res.self.age <= AgeCap
    /\ res.self.active_cycle # None =>
            NumSamples(res.self.active_cycle[1]) <= MaxSamples

Update(cycle, snr, phase) ==
    LET res == update(hist, cycle, Reading(snr, phase), now)
    IN /\ WithinBounds(res)
       /\ hist' = res.self
       /\ call' = [op |-> "update", exc |-> res.exc, log |-> res.log,
                   nrec |-> Len(hist.records.items)]
       /\ UNCHANGED <<now, driverVars>>

UpdateAny ==
    /\ \E cycle \in CycleValues, snr \in SNRValues, phase \in AntennaPhase :
            Update(cycle, snr, phase)
    /\ UNCHANGED fed

NextHist == UpdateAny

SpecHist == Init /\ [][NextHist]_vars

\* What update(cycle, reading) would make of hist
After(cycle, snr, phase) ==
    update(hist, cycle, Reading(snr, phase), now).self

Logged(msg) == \E i \in 1..Len(call.log) : call.log[i] = msg

(***************************************************************************)
(* SpecValues: one SatHistory fed readings of two signal strengths for the *)
(* cycles 0 and 1, so that the averages of a frozen cycle differ.          *)
(***************************************************************************)
ValueUpdate ==
    /\ \E cycle \in {0, 1}, snr \in {Some(1), Some(2)},
          phase \in AntennaPhase :
            Update(cycle, snr, phase)
    /\ UNCHANGED fed

NextValues == ValueUpdate

SpecValues == Init /\ [][NextValues]_vars

(***************************************************************************)
(* SpecFeed: a fresh SatHistory fed strictly increasing cycle counters,    *)
(* each cycle one usable sample per phase in the order A, B, C, D.         *)
(***************************************************************************)
PhaseOrder == <<"A", "B", "C", "D">>

\* highest cycle counter of the ordered feed
MaxFeedCycle == MaxCycle + 2

Last(s) == s[Len(s)]

FeedUpdate(cycle, phase) ==
    LET res == update(hist, cycle, Reading(Some(1), phase), now)
    IN /\ hist' = res.self
       /\ call' = [op |-> "update", exc |-> res.exc, log |-> res.log,
                   nrec |-> Len(hist.records.items)]
       /\ UNCHANGED <<now, driverVars>>

\* Begin the next cycle with its phase-A sample
FeedNewCycle ==
    /\ fed.cycles = <<>> \/ fed.pos = 4
    /\ \E cycle \in 0..MaxFeedCycle :
          /\ fed.cycles # <<>> => cycle > Last(fed.cycles)
          /\ FeedUpdate(cycle, PhaseOrder[1])
          /\ fed' = [cycles |-> Append(fed.cycles, cycle), pos |-> 1]

\* Continue the current cycle with the sample of its next phase
FeedNextPhase ==
    /\ fed.cycles # <<>>
    /\ fed.pos < 4
    /\ FeedUpdate(Last(fed.cycles), PhaseOrder[fed.pos + 1])
    /\ fed' = [fed EXCEPT !.pos = @ + 1]

NextFeed == FeedNewCycle \/ FeedNextPhase

SpecFeed == Init /\ [][NextFeed]_vars

(***************************************************************************)
(* Spec: the loop thread of the driver, step by step, the acquisition      *)
(* process that fills the queue and the callers of reset.  The queue holds *)
(* one flag per frame: whether the frame was there when a reset was        *)
(* observed.  What a frame contains is drawn when it is taken.             *)
(***************************************************************************)
\* The record of the loop's last step; for a sweep and for a reset nrec is
\* the size of the registry before it
Step(op, exc, log) == [op |-> op, exc |-> exc, log |-> log, nrec |-> 0]

\* LoopTop that takes the lock and never looks at the reset flag
LoopTopIgnoresReset ==
    /\ pc = "top"
    /\ lock = "free"
    /\ lock' = "loop"
    /\ pc' = "sweep"
    /\ call' = Step("top", "", <<>>)
    /\ UNCHANGED <<queue, do_reset, shared, now, histVars, req>>

\* Lines 86-87 and 71: take the lock and look at the reset flag.  The frames
\* in the queue at that moment are the ones the reset has seen.
LoopTop ==
    /\ pc = "top"
    /\ lock = "free"
    /\ lock' = "loop"
    /\ IF do_reset
       THEN /\ pc' = "drain"
            /\ queue' = [i \in 1..Len(queue) |-> TRUE]
            /\ call' = Step("top", "", <<"Starting driver reset">>)
            /\ req' = [req EXCEPT !.unserved = FALSE]
       ELSE /\ pc' = "sweep"
            /\ queue' = queue
            /\ call' = Step("top", "", <<>>)
            /\ req' = req
    /\ UNCHANGED <<do_reset, shared, now, histVars>>

\* clear_queue (line 73): take frames off the queue until it is empty
DrainStep ==
    /\ pc = "drain"
    /\ queue # <<>>
    /\ queue' = Tail(queue)
    /\ call' = Step("drain", "", <<>>)
    /\ UNCHANGED <<pc, do_reset, lock, shared, now, histVars, req>>

DrainEnd ==
    /\ pc = "drain"
    /\ queue = <<>>
    /\ pc' = "clear"
    /\ call' = Step("drained", "", <<>>)
    /\ UNCHANGED <<queue, do_reset, lock, shared, now, histVars, req>>

\* Lines 74-82
ResetClear ==
    /\ pc = "clear"
    /\ shared' = ResetShared(shared)
    /\ do_reset' = FALSE
    /\ pc' = "sweep"
    /\ call' = [op |-> "reset", exc |-> "",
                log |-> <<"Finished driver reset">>,
                nrec |-> Cardinality(shared.satellites)]
    /\ req' = [req EXCEPT !.gets = 0]
    /\ UNCHANGED <<queue, lock, now, histVars>>

\* Line 88 and the end of the with block.  An exception leaves _loop and
\* ends the thread; the with block releases the lock on the way.
Sweep ==
    /\ pc = "sweep"
    /\ LET res == drop_old_satellites(shared, now)
       IN /\ shared' = res.shared
          /\ pc' = IF res.exc # "" THEN "dead" ELSE "get"
          /\ call' = [op |-> "sweep", exc |-> res.exc,
                      log |-> IF res.shared # shared
                              THEN <<"Dropping satellite">> ELSE <<>>,
                      nrec |-> Cardinality(shared.satellites)]
    /\ lock' = "free"
    /\ UNCHANGED <<queue, do_reset, now, histVars, req>>

\* Lines 90-96: block for a frame, decode and trim it.  An exception of the
\* decoding leaves _loop and ends the thread.
Get(frames) ==
    /\ pc = "get"
    /\ queue # <<>>
    /\ queue' = Tail(queue)
    /\ \E raw \in frames :
          LET decoded == decode_strip(raw)
          IN /\ pc' = IF decoded.exc # "" THEN "dead"
                      ELSE IF decoded.len = 0 THEN "top"
                      ELSE "dispatch"
             /\ call' = Step("get", decoded.exc,
                             IF decoded.exc = "" /\ decoded.len = 0
                             THEN <<"Received empty sentence">> ELSE <<>>)
    /\ req' = [req EXCEPT !.gets = IF do_reset THEN @ + 1 ELSE @]
    /\ UNCHANGED <<do_reset, lock, shared, now, histVars>>

\* Every history of the registry stays within the model's bounds
RegistryWithinBounds(sh) ==
    \A e \in sh.satellites :
        /\ e.hist.age <= AgeCap
        /\ e.hist.active_cycle # None =>
              NumSamples(e.hist.active_cycle[1]) <= MaxSamples

\* TakeLock that goes on without the lock
TakeLockSkipped ==
    /\ pc = "dispatch"
    /\ pc' = "process"
    /\ UNCHANGED <<lock, queue, do_reset, shared, now, call, histVars, req>>

\* Line 98: wait for the lock and take it
TakeLock ==
    /\ pc = "dispatch"
    /\ lock = "free"
    /\ lock' = "loop"
    /\ pc' = "process"
    /\ UNCHANGED <<queue, do_reset, shared, now, call, histVars, req>>

\* Lines 99-106: under the lock, process the sentence just decoded, then
\* release the lock
Dispatch(sentences) ==
    /\ pc = "process"
    /\ lock' = "free"
    /\ \E decoded \in sentences :
          /\ call' = Step("dispatch", "", dispatch(shared, decoded, now).log)
          /\ shared' = dispatch(shared, decoded, now).shared
          /\ RegistryWithinBounds(shared')
    /\ pc' = "top"
    /\ UNCHANGED <<queue, do_reset, now, histVars, req>>

\* The acquisition process puts a frame on the queue
Put ==
    /\ Len(queue) < MaxQueue
    /\ queue' = Append(queue, FALSE)
    /\ UNCHANGED <<pc, do_reset, lock, shared, now, call, histVars, req>>

\* Driver.reset, called from any thread
ResetCall ==
    /\ do_reset' = TRUE
    /\ req' = [req EXCEPT !.unserved = TRUE]
    /\ UNCHANGED <<pc, queue, lock, shared, now, call, histVars>>

\* Wall-clock time passes
Tick ==
    /\ now < MaxTime
    /\ now' = now + 1
    /\ UNCHANGED <<pc, queue, do_reset, lock, shared, call, histVars, req>>

Next ==
    \/ LoopTop
    \/ DrainStep
    \/ DrainEnd
    \/ ResetClear
    \/ Sweep
    \/ Get(RawFrames)
    \/ TakeLock
    \/ Dispatch(Sentences)
    \/ Put
    \/ ResetCall

Spec == Init /\ [][Next]_vars

(***************************************************************************)
(* SpecReaders: Spec with a reader of the shared state, who takes the lock *)
(* to look at it and releases it afterwards.                               *)
(***************************************************************************)
ReaderAcquire ==
    /\ lock = "free"
    /\ lock' = "reader"
    /\ UNCHANGED <<pc, queue, do_reset, shared, now, call, histVars, req>>

ReaderRelease ==
    /\ lock = "reader"
    /\ lock' = "free"
    /\ UNCHANGED <<pc, queue, do_reset, shared, now, call, histVars, req>>

NextReaders ==
    \/ Next
    \/ ReaderAcquire
    \/ ReaderRelease

SpecReaders == Init /\ [][NextReaders]_vars

(***************************************************************************)
(* SpecSweep: the loop without resets while time passes and satellites     *)
(* come and go.                                                            *)
(***************************************************************************)
NextSweep ==
    \/ LoopTop
    \/ Sweep
    \/ Get({"text"})
    \/ TakeLock
    \/ Dispatch(SatSentences)
    \/ Put
    \/ Tick

SpecSweep == Init /\ [][NextSweep]_vars

(***************************************************************************)
(* Properties of SatHistory                                                *)
(***************************************************************************)
ArchiveItems(self) == {self.records.items[i] : i \in 1..Len(self.records.items)}

ArchiveKeySeq(self) ==
    [i \in 1..Len(self.records.items) |-> self.records.items[i].key]

\* Every archived record has a sample in each phase and sits under its counter
ArchiveAllValid ==
    \A item \in ArchiveItems(hist) :
        /\ is_valid(item.value)
        /\ item.key = item.value.counter

\* A record that enters the archive is the active cycle of the moment,
\* which has a sample in every phase
ArchivedFromValidActive ==
    \A item \in ArchiveItems(hist') \ ArchiveItems(hist) :
        /\ hist.active_cycle # None
        /\ is_valid(hist.active_cycle[1])
        /\ item.key = hist.active_cycle[1].counter
        /\ \A phase \in AntennaPhase :
              item.value[phase] = hist.active_cycle[1][phase]

\* A boundary crossed with an incomplete active cycle drops that cycle and
\* leaves the archive as it was
IncompleteDiscarded ==
    (/\ hist.active_cycle # None
     /\ is_invalid(hist.active_cycle[1])
     /\ hist'.active_cycle # hist.active_cycle
     /\ hist'.active_cycle[1].counter # hist.active_cycle[1].counter)
    => /\ hist'.records = hist.records
       /\ NumSamples(hist'.active_cycle[1]) = 1

\* C2: every archived FrozenCycle comes from an active cycle with a sample in
\* each of the four phases; crossing a cycle boundary with an incomplete
\* active cycle discards it and leaves the archive unchanged; update never
\* makes freeze_cycle raise its ValueError.
C2_FrozenOnlyFromValid ==
    /\ [](ArchiveAllValid /\ call.exc # "ValueError")
    /\ [][ArchivedFromValidActive /\ IncompleteDiscarded]_vars

\* An incomplete cycle was discarded while the archive held a record
C2_Witness ==
    /\ call.op = "update"
    /\ Logged("active cycle is invalid")
    /\ call.nrec > 0
    /\ Len(hist.records.items) = call.nrec

\* C3: an update with usable SNR on a valid SatHistory whose cycle counter is
\* lower than the active cycle's, or is a key of the archive, changes no
\* field of the SatHistory.
C3_RejectedMutatesNothing ==
    \A cycle \in CycleValues, snr \in SNRValues, phase \in AntennaPhase :
        (/\ Truthy(snr)
         /\ hist.valid
         /\ hist.active_cycle # None
         /\ \/ cycle < hist.active_cycle[1].counter
            \/ cycle \in CaporDictKeys(hist.records))
        => After(cycle, snr, phase) = hist

\* A reading for an earlier cycle was rejected by a history with records
C3_Witness ==
    /\ call.op = "update"
    /\ Logged("earlier cycle")
    /\ hist.valid
    /\ hist.records.items # <<>>
    /\ hist.last_update # None

\* C4: once miss-age has reached max_age, the next update that brings a
\* sample clears the archive and appends that sample to the active cycle
\* for its phase.
C4_ClearsThenApplies ==
    \A cycle \in CycleValues, snr \in SNRValues, phase \in AntennaPhase :
        (Truthy(snr) /\ above_age_limit(hist))
        => LET after == After(cycle, snr, phase)
           IN /\ after.records.items = <<>>
              /\ after.active_cycle # None
              /\ after.active_cycle[1][phase] # <<>>
              /\ Last(after.active_cycle[1][phase]) = snr[1]
              /\ hist.active_cycle # None =>
                    Len(after.active_cycle[1][phase]) =
                       Len(hist.active_cycle[1][phase]) + 1

\* C5: an update without usable SNR (absent or zero) sets the validity flag
\* to invalid, records the reading's phase, adds exactly 1 to miss-age and
\* leaves every other field (active cycle, archive, latest reading,
\* last-update time) unchanged, whatever the state before the call.
C5_MissingOnlyAges ==
    \A cycle \in CycleValues, snr \in SNRValues, phase \in AntennaPhase :
        ~Truthy(snr)
        => After(cycle, snr, phase) =
              [hist EXCEPT !.valid = FALSE,
                           !.active_phase = phase,
                           !.age = hist.age + 1]

\* A reading without SNR reached a history that had samples and records
C5_Witness ==
    /\ call.op = "update"
    /\ Logged("went missing")
    /\ hist.age = 1
    /\ hist.active_cycle # None
    /\ hist.records.items # <<>>
    /\ hist.latest_sat # None

\* The archive expected after the ordered feed: the last avg_size of the
\* completed cycles, one sample per phase each, and not the active cycle
FeedDone == SubSeq(fed.cycles, 1, Len(fed.cycles) - 1)

FeedKept ==
    IF Len(FeedDone) <= AVG_SIZE THEN FeedDone
    ELSE SubSeq(FeedDone, Len(FeedDone) - AVG_SIZE + 1, Len(FeedDone))

\* C6: after strictly increasing cycles c1 < ... < ck, each fed one usable
\* sample per phase in the order A, B, C, D, the archive holds exactly one
\* FrozenCycle for each of the last avg_size completed cycles c1..c(k-1),
\* and none for the active cycle ck.
C6_OneRecordPerCompletedCycle ==
    fed.cycles # <<>> =>
        /\ ArchiveKeySeq(hist) = FeedKept
        /\ \A item \in ArchiveItems(hist) :
              /\ item.value.counter = item.key
              /\ \A phase \in AntennaPhase : item.value[phase] = <<1>>
        /\ ~CaporDictContains(hist.records, Last(fed.cycles))
        /\ hist.active_cycle # None
        /\ hist.active_cycle[1].counter = Last(fed.cycles)
        /\ NumSamples(hist.active_cycle[1]) = fed.pos

\* More cycles than the archive holds were completed and the last one is
\* complete but still active
C6_Witness ==
    /\ Len(fed.cycles) > AVG_SIZE + 1
    /\ fed.pos = 4
    /\ Len(hist.records.items) = AVG_SIZE
    /\ is_valid(hist.active_cycle[1])

\* C7: the archive never holds more than avg_size records; archiving a
\* cycle into a full archive drops the earliest-inserted record and keeps
\* the others in their order.
C7_ArchiveBounded ==
    /\ [](Len(hist.records.items) <= AVG_SIZE)
    /\ [][(/\ Len(hist.records.items) = AVG_SIZE
           /\ hist'.records # hist.records
           /\ hist'.records.items # <<>>)
          => /\ Len(hist'.records.items) = AVG_SIZE
             /\ SubSeq(hist'.records.items, 1, AVG_SIZE - 1)
                   = Tail(hist.records.items)
             /\ Last(hist'.records.items).key
                   = hist.active_cycle[1].counter]_vars

\* A cycle was archived into a full archive
C7_Witness ==
    /\ call.op = "update"
    /\ Logged("freeze")
    /\ call.nrec = AVG_SIZE
    /\ Len(hist.records.items) = AVG_SIZE

\* C8: an update with usable SNR on a valid SatHistory whose cycle counter
\* equals the active cycle's appends exactly one sample to the sequence of
\* the reading's phase, leaves the other three sequences and the counter
\* unchanged, and leaves the archive unchanged.
C8_SameCycleAppends ==
    \A cycle \in CycleValues, snr \in SNRValues, phase \in AntennaPhase :
        (/\ Truthy(snr)
         /\ hist.valid
         /\ hist.active_cycle # None
         /\ cycle = hist.active_cycle[1].counter)
        => LET after == After(cycle, snr, phase)
           IN /\ after.active_cycle =
                    Some([hist.active_cycle[1] EXCEPT
                             ![phase] = Append(@, snr[1])])
              /\ after.records = hist.records

\* A second sample joined a phase of the active cycle, beside an archive
C8_Witness ==
    /\ call.op = "update"
    /\ call.log = <<"appended">>
    /\ call.nrec > 0
    /\ \E phase \in AntennaPhase : Len(hist.active_cycle[1][phase]) = 2

(***************************************************************************)
(* Properties of the driver loop                                           *)
(***************************************************************************)
\* C1: the ingestion loop never terminates because of bad input: whatever
\* frame it takes from the queue (empty after trimming, unknown leading
\* character, unknown proprietary id, malformed payload, checksum or parse
\* failure, field-coercion failure, undecodable bytes), the loop thread
\* stays alive and goes on to the top of its next iteration.
C1_LoopSurvivesBadInput == pc # "dead"

\* The time since the last successful update of a history, at time t
SinceUpdate(h, t) == t - h.last_update[1]

\* C9: at the staleness sweep every SatHistory whose last successful update
\* is older than MAX_AGE_TIME is removed from the registry, whatever its
\* miss-age and validity flag, and every SatHistory whose last successful
\* update is within MAX_AGE_TIME is kept.
C9_SweepDropsExactlyTheOlder ==
    pc = "sweep" =>
        LET after == drop_old_satellites(shared, now).shared.satellites
        IN \A e \in shared.satellites :
              e.hist.last_update # None =>
                 /\ SinceUpdate(e.hist, now) > MAX_AGE_TIME
                       => e.key \notin Keys(after)
                 /\ SinceUpdate(e.hist, now) <= MAX_AGE_TIME
                       => e \in after

\* What holds when the loop has finished a reset and still has the lock
ResetDone ==
    /\ shared.satellites = {}
    /\ shared.antenna = None
    /\ shared.position = None
    /\ shared.magnetometer = None
    /\ shared.temprature = None
    /\ shared.status = None
    /\ shared.error_status = None
    /\ \A i \in 1..Len(queue) : ~queue[i]
    /\ ~do_reset
    /\ lock = "loop"

\* C10: when the loop observes a pending reset at the top of an iteration,
\* then before the lock is released the registry is empty, the antenna
\* snapshot, position, magnetometer reading, temperature, status and error
\* status are absent, every frame that was in the queue when the reset was
\* observed has been removed without being processed, and the reset flag
\* is cleared.
C10_ResetClearsEverything ==
    [][/\ (pc \in {"drain", "clear"} /\ pc' \notin {"drain", "clear"})
            => ResetDone'
       /\ (pc \in {"drain", "clear"}) => lock' = "loop"
       /\ (pc = "get" /\ pc' # "get") => ~Head(queue)]_vars

\* A reset has just cleared a registry that held satellites
C10_Witness ==
    /\ call.op = "reset"
    /\ call.nrec > 0
    /\ pc = "sweep"
    /\ ResetDone

\* C11: a reset requested through reset() is carried out only at the top of
\* a loop iteration, under the lock: the drain begins only from the top of
\* an iteration, the state is cleared and the flag lowered only by the reset
\* step while the loop holds the lock, a frame already dequeued is processed
\* whole before that, and while a request is pending the loop dequeues at
\* most one frame.
C11_ResetOnlyAtTop ==
    /\ [](req.gets <= 1)
    /\ [][/\ (pc' = "drain" /\ pc # "drain") => (pc = "top" /\ lock' = "loop")
          /\ (do_reset /\ ~do_reset') => (pc = "clear" /\ lock = "loop")
          /\ (pc = "dispatch" /\ pc' # "dispatch") => pc' = "process"
          /\ (pc = "process" /\ pc' # "process")
                => (pc' = "top" /\ call'.op = "dispatch")]_vars

\* The loop begins a reset that was requested before the one frame it has
\* dequeued and processed since
C11_Witness ==
    /\ pc = "drain"
    /\ call.op = "top"
    /\ Logged("Starting driver reset")
    /\ req.gets = 1
    /\ do_reset

\* The sentences nothing is made of: an unknown leading character, an
\* unknown proprietary id, a standard sentence the parser rejects, whatever
\* it would otherwise carry
Rejected ==
    {Unknown, Proprietary("#99", "ok", ""), Proprietary("#99", "bad", "")}
    \cup {Standard(parse, "GSV", "GP",
                   <<Slot(Num(1), Num(10), Num(20), Num(1)),
                     Slot(Num(2), Num(10), Num(20), Blank),
                     EmptySlot, EmptySlot>>, NoFix) :
             parse \in {"checksum", "parse", "exception"}}
    \cup {Standard(parse, "GGA", "GP", NoSlots, NoFix) :
             parse \in {"checksum", "parse", "exception"}}

\* C12: processing a frame that is empty after trimming, starts with a
\* character other than '$' or '#', carries an unknown proprietary id, or is
\* a standard sentence rejected by the parser (checksum error, parse error,
\* any other exception) leaves all shared state unchanged: antenna snapshot
\* and phase, position, temperature, magnetometer reading and buffer, status
\* strings and the registry with every SatHistory in it.
C12_RejectedFramesChangeNothing ==
    /\ [](\A decoded \in Rejected : dispatch(shared, decoded, now).shared = shared)
    /\ [][(pc = "get" /\ pc' # "get") => shared' = shared]_vars

\* A sentence with a checksum error was dropped while the driver knew an
\* antenna snapshot, a position and a satellite
C12_Witness ==
    /\ call.op = "dispatch"
    /\ Logged("Checksum error")
    /\ shared.antenna # None
    /\ shared.position # None
    /\ shared.satellites # {}

\* The places of the loop between taking the lock and releasing it
InCriticalSection == pc \in {"drain", "clear", "sweep", "process"}

\* C13: every write by the ingestion thread to shared state happens while
\* the thread holds the lock, so a reader that holds the same lock never
\* finds the loop in the middle of a reset, of a staleness sweep or of the
\* processing of a frame.
C13_WritesUnderLock ==
    /\ [](InCriticalSection <=> lock = "loop")
    /\ [](lock = "reader" => ~InCriticalSection)
    /\ [][shared' # shared => lock = "loop"]_vars

\* A reader holds the lock while the loop waits with a frame it has
\* dequeued and a reset is pending
C13_Witness ==
    /\ lock = "reader"
    /\ pc = "dispatch"
    /\ do_reset
    /\ shared.satellites # {}

(***************************************************************************)
(* Properties of freeze_cycle                                              *)
(***************************************************************************)
\* The difference p - q of two fractions is the whole number n
DiffIs(p, q, n) == p.num * q.den - q.num * p.den = n * p.den * q.den

\* C14: with calibration offset 0, freeze_cycle yields azimuth 0 degrees
\* when avgA = avgC and avgB = avgD, 90 degrees when avgA - avgC = 1 and
\* avgB - avgD = 0, and 270 degrees when avgA - avgC = -1 and
\* avgB - avgD = 0.  Azimuths are in thousandths of a degree.
C14_AzimuthOnAxes ==
    \A i \in 1..Len(hist.records.items) :
        LET r == hist.records.items[i].value
        IN /\ AZ_OFFSET = 0
           /\ (DiffIs(r.avg_A, r.avg_C, 0) /\ DiffIs(r.avg_B, r.avg_D, 0))
                 => r.azimuth = 0
           /\ (DiffIs(r.avg_A, r.avg_C, 1) /\ DiffIs(r.avg_B, r.avg_D, 0))
                 => r.azimuth = 90000
           /\ (DiffIs(r.avg_A, r.avg_C, -1) /\ DiffIs(r.avg_B, r.avg_D, 0))
                 => r.azimuth = 270000

\* A cycle with avgA - avgC = -1 and avgB = avgD has just been frozen
C14_Witness ==
    /\ call.op = "update"
    /\ Logged("freeze")
    /\ \E i \in 1..Len(hist.records.items) :
          LET r == hist.records.items[i].value
          IN /\ DiffIs(r.avg_A, r.avg_C, -1)
             /\ DiffIs(r.avg_B, r.avg_D, 0)
             /\ r.azimuth = 270000

(***************************************************************************)
(* Recovery of an invalid SatHistory                                       *)
(***************************************************************************)
\* The history h after a reading with usable SNR for cycle and phase
Usable(h, cycle, phase) ==
    update(h, cycle, Reading(Some(1), phase), now).self

\* The history h after the readings of one whole cycle, each phase with
\* usable SNR, and the first reading of the cycle after it
AfterOneCycle(h, cycle) ==
    Usable(Usable(Usable(Usable(Usable(h, cycle, "A"), cycle, "B"),
                         cycle, "C"), cycle, "D"), cycle + 1, "A")

\* C15: a SatHistory marked invalid by a reading without usable SNR recovers
\* from later readings with usable SNR: such an update only increments
\* miss-age and leaves the active cycle alone, and after the readings of one
\* cycle the history is valid again.
C15_RecoversAfterOneCycle ==
    ~hist.valid =>
        \A cycle \in CycleValues, phase \in AntennaPhase :
            /\ Usable(hist, cycle, phase).age = hist.age + 1
            /\ Usable(hist, cycle, phase).active_cycle = hist.active_cycle
            /\ AfterOneCycle(hist, cycle).valid

(***************************************************************************)
(* Properties of the sentence decoders                                     *)
(***************************************************************************)
\* Proprietary sentences with a recognized id whose decoding raises: a phase
\* sentence whose fifth character is no phase or whose decoder fails, a
\* temperature and a magnetometer sentence whose decoder fails
FailingRecognized ==
    {Phase(ch, "bad", 0) : ch \in AntennaPhase}
    \cup {Phase("Z", "ok", 0), Phase("Z", "bad", 0),
          Proprietary("#11", "bad", ""), Proprietary("#10", "bad", "")}

\* C16: when decoding a proprietary sentence with a recognized id raises an
\* exception, the exception is caught and no shared state is changed; for an
\* antenna-phase sentence whose decoder fails, the antenna phase and the
\* antenna snapshot keep their previous values.
C16_FailedDecodeChangesNothing ==
    \A decoded \in FailingRecognized :
        /\ sort_proprietary_sentence(shared, decoded).log
              = <<"Failed to parse proprietary sentence">>
        /\ sort_proprietary_sentence(shared, decoded).shared = shared

(***************************************************************************)
(* SpecLive: the driver fed frames that keep it running, under fair        *)
(* scheduling: the loop thread takes its next step whenever it can, and    *)
(* frames keep arriving whenever the queue has room.                       *)
(***************************************************************************)
LiveSentences ==
    {Proprietary("#00", "ok", "status"),
     Proprietary("#01", "ok", "error"),
     Standard("ok", "GGA", "GP", NoSlots, NoFix),
     Unknown}

\* The steps of the loop thread
LoopStep ==
    \/ LoopTop
    \/ DrainStep
    \/ DrainEnd
    \/ ResetClear
    \/ Sweep
    \/ Get({"text", "blank"})
    \/ TakeLock
    \/ Dispatch(LiveSentences)

NextLive ==
    \/ LoopStep
    \/ Put
    \/ ResetCall

SpecLive ==
    /\ Init
    /\ [][NextLive]_vars
    /\ WF_vars(LoopStep)
    /\ WF_vars(Put)

(***************************************************************************)
(* SpecStale: the loop with resets while time passes, fed one satellite    *)
(* with a usable signal and one that never has one.                        *)
(***************************************************************************)
StaleSentences ==
    {Phase("A", "ok", 0),
     OneSat("GP", 1, Num(1)),
     OneSat("GP", 2, Blank)}

NextStale ==
    \/ LoopTop
    \/ DrainStep
    \/ DrainEnd
    \/ ResetClear
    \/ Sweep
    \/ Get({"text"})
    \/ TakeLock
    \/ Dispatch(StaleSentences)
    \/ Put
    \/ ResetCall
    \/ Tick

SpecStale == Init /\ [][NextStale]_vars

(***************************************************************************)
(* SpecSlots: the loop fed phase sentences and satellites-in-view          *)
(* sentences one of whose slots is not a number.                           *)
(***************************************************************************)
\* The j-th slot of such a sentence when all its fields are numbers
GoodSlot(j) == Slot(Num(j), Num(10), Num(20), Num(1))

\* The same slot with one field that is not a number
BadSlot(j, field) == [GoodSlot(j) EXCEPT ![field] = Bad]

\* A sentence of four satellites whose k-th slot has a field int() rejects
FailsAt(k, field) ==
    Standard("ok", "GSV", "GP",
             [j \in 1..4 |-> IF j = k THEN BadSlot(j, field) ELSE GoodSlot(j)],
             NoFix)

SlotSentences ==
    {Phase("A", "ok", 0), Phase("B", "ok", 0)}
    \cup {FailsAt(k, "prn") : k \in 1..3}

NextSlots ==
    \/ LoopTop
    \/ Sweep
    \/ Get({"text"})
    \/ TakeLock
    \/ Dispatch(SlotSentences)
    \/ Put

SpecSlots == Init /\ [][NextSlots]_vars

(***************************************************************************)
(* SpecIdent: the loop while time passes, fed satellites of a known        *)
(* talker, of an unknown talker and with PRN 0.                            *)
(***************************************************************************)
IdentSentences ==
    {Phase("A", "ok", 0),
     OneSat("GP", 1, Num(1)),
     OneSat("XX", 1, Num(1)),
     OneSat("GP", 0, Num(1))}

NextIdent ==
    \/ LoopTop
    \/ Sweep
    \/ Get({"text"})
    \/ TakeLock
    \/ Dispatch(IdentSentences)
    \/ Put
    \/ Tick

SpecIdent == Init /\ [][NextIdent]_vars

(***************************************************************************)
(* Properties of the archive                                               *)
(***************************************************************************)
\* The archived records of a history, as a set of [key, value] entries
Archived(h) == {h.records.items[i] : i \in 1..Len(h.records.items)}

\* C17: an archived FrozenCycle never changes: every record of the archive
\* is, after any update, either still there with the same counter, samples,
\* averages and azimuth, or it was the earliest record of a full archive
\* into which a cycle was frozen, or the archive was cleared above the age
\* limit; samples appended to the active cycle show up in no record.
C17_ArchivedNeverChanges ==
    [][\A i \in 1..Len(hist.records.items) :
          \/ hist.records.items[i] \in Archived(hist')
          \/ /\ i = 1
             /\ Len(hist.records.items) = hist.avg_size
             /\ "freeze" \in {call'.log[k] : k \in 1..Len(call'.log)}
             /\ Tail(hist.records.items)
                   = SubSeq(hist'.records.items, 1, hist.avg_size - 1)
          \/ /\ hist'.records.items = <<>>
             /\ "above age limit" \in {call'.log[k] : k \in 1..Len(call'.log)}]_vars

\* A sample was appended to the second phase of an active cycle while the
\* archive holds a record of an earlier cycle
C17_Witness ==
    /\ call.op = "update"
    /\ Logged("appended")
    /\ hist.records.items # <<>>
    /\ hist.active_cycle # None
    /\ NumSamples(hist.active_cycle[1]) >= 2
    /\ \A i \in 1..Len(hist.records.items) :
          hist.records.items[i].key < hist.active_cycle[1].counter

(***************************************************************************)
(* Properties of the satellites-in-view sentences                          *)
(***************************************************************************)
\* Satellites-in-view sentences the parser accepts: seen and unseen
\* satellites, SNR present and blank, a slot that is not a number
ViewSentences ==
    {OneSat(talker, prn, snr) :
        talker \in {"GP", "GA"}, prn \in {1, 2}, snr \in {Num(1), Blank}}
    \cup {SecondSlotBad}

\* The shared state sh with the antenna snapshot unset
WithoutAntenna(sh) == [sh EXCEPT !.antenna = None]

\* C18: a satellites-in-view sentence processed while no antenna snapshot
\* is set changes nothing: the registry gains no SatHistory and no
\* SatHistory of it is updated, neither in the states the driver reaches
\* without a snapshot nor in any reached state with its snapshot removed.
C18_NoAntennaNoChange ==
    \A sentence \in ViewSentences :
        /\ shared.antenna = None =>
              /\ dispatch(shared, sentence, now).shared = shared
              /\ dispatch(shared, sentence, now).log
                    = <<"No antenna or antenna phase set">>
        /\ process_gsv(WithoutAntenna(shared), sentence, now).shared
              = WithoutAntenna(shared)

\* The loop has processed a satellites-in-view sentence without a snapshot
\* and other shared state was set before
C18_Witness ==
    /\ call.op = "dispatch"
    /\ Logged("No antenna or antenna phase set")
    /\ shared.antenna = None
    /\ shared.status # None

\* A satellites-in-view sentence of talker GP whose i-th slot is slot
SlotAt(i, slot) ==
    Standard("ok", "GSV", "GP",
             [j \in 1..4 |-> IF j = i THEN slot ELSE EmptySlot], NoFix)

\* Slots with a blank PRN, azimuth or elevation
SkippedSlots ==
    {Slot(prn, azimuth, elevation, snr) :
        prn \in {Blank, Num(1)}, azimuth \in {Blank, Num(10)},
        elevation \in {Blank, Num(20)}, snr \in {Blank, Num(1)}}
    \ {Slot(Num(1), Num(10), Num(20), snr) : snr \in {Blank, Num(1)}}

\* The SatHistory the registry holds under key, or the one lines 178-183
\* create for an unseen satellite
HistoryOf(satellites, key, talker, prn) ==
    IF key \in Keys(satellites) THEN Lookup(satellites, key)
    ELSE SatHistoryInit(talker, Some(prn), AVG_SIZE, MAX_AGE)

\* res is sh with the history under key replaced by before marked invalid
\* and one miss older, and nothing else changed
MissCounted(sh, res, key, before) ==
    /\ res.exc = ""
    /\ Keys(res.shared.satellites) = Keys(sh.satellites) \cup {key}
    /\ Lookup(res.shared.satellites, key)
          = [before EXCEPT !.valid = FALSE,
                           !.age = @ + 1,
                           !.active_phase = sh.antenna_phase]
    /\ \A e \in sh.satellites : e.key # key => e \in res.shared.satellites
    /\ [res.shared EXCEPT !.satellites = sh.satellites] = sh

\* C19: with an antenna snapshot set, in each of the four slots of a
\* satellites-in-view sentence a slot whose PRN, azimuth or elevation is
\* blank changes no state, and a slot with PRN, azimuth and elevation but a
\* blank SNR creates the SatHistory if the satellite is unseen and updates
\* it: the satellite is marked invalid and its miss-age grows by one.
C19_SlotHandling ==
    shared.antenna # None =>
        \A i \in 1..4 :
            /\ \A slot \in SkippedSlots :
                  ProcessSlot(shared, SlotAt(i, slot), i, now)
                      = [shared |-> shared, exc |-> ""]
            /\ \A prn \in {1, 2} :
                  MissCounted(shared,
                              ProcessSlot(shared,
                                          SlotAt(i, Slot(Num(prn), Num(10),
                                                         Num(20), Blank)),
                                          i, now),
                              str(ident("GP", Some(prn))),
                              HistoryOf(shared.satellites,
                                        str(ident("GP", Some(prn))),
                                        "GP", prn))

\* The loop has processed a sentence whose slot without SNR created the
\* SatHistory of an unseen satellite
C19_Witness ==
    /\ call.op = "dispatch"
    /\ shared.antenna # None
    /\ \E e \in shared.satellites :
          /\ ~e.hist.valid
          /\ e.hist.age = 1
          /\ e.hist.last_update = None

(***************************************************************************)
(* Properties of the reset requests                                        *)
(***************************************************************************)
\* C20: no reset request is lost: while frames keep arriving, every call of
\* reset(), also one made while the loop carries out an earlier reset, is
\* followed by the loop beginning a reset (queue drain, then clearing) after
\* that call.
C20_NoResetLost == req.unserved ~> ~req.unserved

(***************************************************************************)
(* Invariants of a SatHistory                                              *)
(***************************************************************************)
\* The messages the update about to be recorded has logged
LogOf(c) == {c.log[k] : k \in 1..Len(c.log)}

\* C21: a SatHistory is valid exactly when its miss-age is 0; so a history
\* at or above the age limit (max_age >= 1) is invalid, and an update that
\* clears the archive above the age limit appends no sample: it leaves the
\* active cycle as it was and the history invalid.
C21_ValidIffFresh ==
    /\ [](hist.valid <=> hist.age = 0)
    /\ []((hist.max_age >= 1 /\ above_age_limit(hist)) => ~hist.valid)
    /\ [][("above age limit" \in LogOf(call'))
            => /\ "appended" \notin LogOf(call')
               /\ hist'.active_cycle = hist.active_cycle
               /\ hist'.last_update = hist.last_update
               /\ ~hist'.valid]_vars

\* An update with usable SNR has cleared a non-empty archive above the age
\* limit
C21_Witness ==
    /\ call.op = "update"
    /\ Logged("above age limit")
    /\ call.nrec > 0
    /\ hist.records.items = <<>>
    /\ hist.age > hist.max_age
    /\ ~hist.valid

\* C22: with an active cycle, every counter in the archive is strictly
\* lower than the counter of the active cycle and the records sit in the
\* archive in strictly increasing order of their counters; so the record
\* that capacity eviction removes has the lowest counter, and a cycle number
\* found in the archive is one the earlier-cycle test has already rejected:
\* the duplicate rejection never fires.
C22_ArchiveBelowActive ==
    /\ hist.active_cycle # None =>
          /\ \A i \in 1..Len(hist.records.items) :
                hist.records.items[i].key < hist.active_cycle[1].counter
          /\ \A cycle \in CycleValues :
                IsDuplicate(hist, cycle) => IsEarlier(hist, cycle)
    /\ \A i \in 1..Len(hist.records.items) :
          \A j \in 1..Len(hist.records.items) :
              i < j => hist.records.items[i].key < hist.records.items[j].key
    /\ ~Logged("already exists")

\* A cycle was frozen into a full archive, evicting its first record, and
\* the active cycle is a later one
C22_Witness ==
    /\ call.op = "update"
    /\ Logged("freeze")
    /\ call.nrec = AVG_SIZE
    /\ Len(hist.records.items) = AVG_SIZE
    /\ hist.active_cycle # None
    /\ hist.active_cycle[1].counter > hist.records.items[AVG_SIZE].key
    /\ hist.records.items[1].key > 0

(***************************************************************************)
(* Properties of the registry                                              *)
(***************************************************************************)
\* The entries of the registry whose history never had a successful update
NeverUpdated(sh) == {e \in sh.satellites : e.hist.last_update = None}

\* The times a sweep may run at: the present and any later time
SweepTimes == now..(MaxTime + MAX_AGE_TIME + 1)

\* C23: a SatHistory that never had a successful update is not removed by
\* the staleness sweep at whatever time it runs, and its key leaves the
\* registry only in the clearing step of a reset.
C23_NeverUpdatedStays ==
    /\ [](\A t \in SweepTimes :
             NeverUpdated(shared)
                \subseteq drop_old_satellites(shared, t).shared.satellites)
    /\ [][\A e \in NeverUpdated(shared) :
             e.key \notin Keys(shared'.satellites)
                => (pc = "clear" /\ call'.op = "reset")]_vars

\* A sweep at the latest time has dropped a stale satellite and left one
\* that never had a successful update
C23_Witness ==
    /\ call.op = "sweep"
    /\ Logged("Dropping satellite")
    /\ now = MaxTime
    /\ NeverUpdated(shared) # {}
    /\ \A e \in NeverUpdated(shared) : ~e.hist.valid /\ e.hist.age >= 1

\* The registry key of the satellite of the j-th slot
SlotKey(j) == str(ident("GP", Some(j)))

\* What the registry holds under key, None for a key it does not have
Held(satellites, key) ==
    IF key \in Keys(satellites) THEN Some(Lookup(satellites, key)) ELSE None

\* The registry after the reading of the j-th slot alone was applied to sh
SlotApplied(sh, j, t) ==
    SlotReading(sh, "GP", Some(j), Some(10), Some(20), Some(1), t)
        .shared.satellites

\* res is what is left of sh when the slots before the k-th were applied
\* and the k-th and later slots were not
PartlyApplied(sh, res, k, t) ==
    /\ res.log = <<"Failed to process sentence">>
    /\ \A j \in 1..4 :
          Held(res.shared.satellites, SlotKey(j))
             = IF j < k THEN Held(SlotApplied(sh, j, t), SlotKey(j))
               ELSE Held(sh.satellites, SlotKey(j))
    /\ Keys(res.shared.satellites)
          = Keys(sh.satellites) \cup {SlotKey(j) : j \in 1..(k - 1)}
    /\ [res.shared EXCEPT !.satellites = sh.satellites] = sh

\* C24: a satellites-in-view sentence is not processed atomically: when the
\* coercion of a field fails at slot k, the exception is caught and logged,
\* the insertions and updates of the slots before k stay applied, and slot
\* k and the slots after it change nothing.
C24_SlotsNotAtomic ==
    shared.antenna # None =>
        \A k \in 1..4 :
            \A field \in {"prn", "azimuth", "elevation", "snr"} :
                PartlyApplied(shared,
                              dispatch(shared, FailsAt(k, field), now),
                              k, now)

\* The loop has processed a sentence that failed at its third slot: the
\* satellites of the first two slots are in the registry with a sample each
\* and the satellites of the last two are not
C24_Witness ==
    /\ call.op = "dispatch"
    /\ Logged("Failed to process sentence")
    /\ Keys(shared.satellites) = {SlotKey(1), SlotKey(2)}
    /\ \A e \in shared.satellites :
          e.hist.valid /\ e.hist.last_update = Some(now)

\* The identity the claim gives a history: talker offset plus PRN, or the
\* sentinel for an unknown talker or PRN 0
IdentityOf(h) ==
    IF talker_to_offset(h.talker) = None \/ h.prn[1] = 0 THEN -1000
    ELSE talker_to_offset(h.talker)[1] + h.prn[1]

\* C25: each key of the registry is the string form of the identity of the
\* SatHistory stored under it (talker offset plus PRN, or -1000 for an
\* unknown talker or PRN 0), no two entries share a key, and so the sweep,
\* at whatever time it runs, finds every key it removes: it raises no
\* missing-key error and the loop thread does not end.
C25_KeysAreIdentities ==
    /\ \A e \in shared.satellites :
          /\ e.key = str(ident(e.hist.talker, e.hist.prn))
          /\ e.key = str(IdentityOf(e.hist))
          /\ \A f \in shared.satellites : f.key = e.key => f = e
    /\ \A t \in SweepTimes : drop_old_satellites(shared, t).exc = ""
    /\ call.exc = ""
    /\ pc # "dead"

\* A sweep has removed the history kept under the sentinel identity and
\* left the one of a known satellite
C25_Witness ==
    /\ call.op = "sweep"
    /\ Logged("Dropping satellite")
    /\ call.nrec = 2
    /\ Keys(shared.satellites) = {str(5001)}
    /\ pc = "get"

====
